---- MODULE Spec2Model ----
(***************************************************************************)
(* Presentation lifecycle of simple-wgpu-template (src/src/main.rs).       *)
(*                                                                         *)
(* main() creates the window, builds the RenderState and hands both to     *)
(* run(), whose closure is called once per event by the platform event     *)
(* loop.  Each action below is one call of that closure (or main's start-  *)
(* up), together with everything it calls.  The platform (window system,   *)
(* graphics driver) is the environment: it picks the window size, the      *)
(* events of an iteration and the result of every get_current_frame().     *)
(*                                                                         *)
(* Outcome vocabulary: the code's RenderResult::Ok is the spec's Ready,    *)
(* RecreateSwapchain is NeedsRecreation, TimedOut is TimedOut and the      *)
(* panic on SwapChainError::OutOfMemory is Fatal.                          *)
(***************************************************************************)
EXTENDS Integers, Sequences, FiniteSets

\* ---------------------------------------------------------------- bounds
\* Largest window width/height the environment produces (0 = zero area).
MaxDim == 1
\* Number of closure calls explored.
MaxEvents == 5
\* Resized events that may be queued and not yet delivered.
MaxPendingResize == 2

Dims == 0..MaxDim
Sizes == Dims \X Dims

\* Formats adapter.get_swap_chain_preferred_format may report.
Formats == {"Bgra8UnormSrgb", "Rgba8UnormSrgb"}

\* Results of SwapChain::get_current_frame: Ok(frame) or a SwapChainError.
FrameResults == {"Ok", "Timeout", "Outdated", "Lost", "OutOfMemory"}

VARIABLES
    pc,               \* "start", "running", "exited", "panicked", "init_failed"
    adapter_found,    \* does instance.request_adapter return Some
    device_ok,        \* does adapter.request_device return Ok
    preferred_format, \* what get_swap_chain_preferred_format reports
    init_error,       \* the InitError main() stopped on, or "none"
    window_size,      \* window.inner_size(), <<width, height>>
    pending_resize,   \* Resized events queued by the window system
    state,            \* RenderState: swapchain_descriptor and swapchain
    live,             \* ids of the swap chains that exist
    control_flow,     \* *control_flow: "Poll" or "Exit"
    phase,            \* position in the loop iteration: "events" or "redraw"
    redraw_requested, \* a redraw is pending for the window
    last_event,       \* the event the closure handled last
    last_result,      \* platform result of the last get_current_frame
    last_outcome,     \* what render() made of it
    frame_log,        \* GPU calls of the last render(), in order
    last_build,       \* the last build: size read, descriptor left, and
                      \* whether the size was unchanged since the build before
    size_changed,     \* the window size changed since the last build
    handled,          \* closure calls so far
    builds,           \* create_swapchain calls so far
    acquires,         \* get_current_frame calls so far
    readys,           \* get_current_frame calls that returned Ok(frame)
    passes,           \* begin_render_pass calls so far
    submits,          \* queue.submit calls so far
    redraw_calls      \* window.request_redraw calls so far

vars == <<pc, adapter_found, device_ok, preferred_format, init_error,
          window_size, pending_resize, state, live, control_flow, phase,
          redraw_requested, last_event, last_result, last_outcome, frame_log,
          last_build, size_changed, handled, builds, acquires, readys, passes,
          submits, redraw_calls>>

\* ------------------------------------------------------------ RenderState
NoSwapChain == [id |-> 0, width |-> 0, height |-> 0,
                format |-> "none", present_mode |-> "none"]

NoDescriptor == [usage |-> "none", format |-> "none", width |-> 0,
                 height |-> 0, present_mode |-> "none"]

NoRenderState == [swapchain_descriptor |-> NoDescriptor,
                  swapchain |-> NoSwapChain]

\* device.create_swap_chain(surface, descriptor): a new swap chain built
\* from the descriptor as it is at the call.
create_swap_chain(descriptor, id) ==
    [id |-> id, width |-> descriptor.width, height |-> descriptor.height,
     format |-> descriptor.format, present_mode |-> descriptor.present_mode]

\* Variant: the descriptor's size is left as it was (size never written).
create_swapchain_keeps_size(descriptor, size, id) ==
    [swapchain_descriptor |-> descriptor,
     swapchain |-> create_swap_chain(descriptor, id)]

\* Variant: the window size is added to the recorded size, not stored.
create_swapchain_adds_size(descriptor, size, id) ==
    LET d == [descriptor EXCEPT
                  !.width = (descriptor.width + size[1]) % (MaxDim + 2),
                  !.height = (descriptor.height + size[2]) % (MaxDim + 2)]
    IN  [swapchain_descriptor |-> d, swapchain |-> create_swap_chain(d, id)]

\* Variant: a zero-area window switches the present mode.
create_swapchain_sets_mode(descriptor, size, id) ==
    LET d == [descriptor EXCEPT !.width = size[1], !.height = size[2],
                  !.present_mode = IF size[1] = 0 \/ size[2] = 0
                                   THEN "Immediate" ELSE @]
    IN  [swapchain_descriptor |-> d, swapchain |-> create_swap_chain(d, id)]

\* create_swapchain: read the window size, store it in the descriptor,
\* build the swap chain.  Yields the written descriptor and the new chain.
create_swapchain(descriptor, size, id) ==
    LET d == [descriptor EXCEPT !.width = size[1], !.height = size[2]]
    IN  [swapchain_descriptor |-> d, swapchain |-> create_swap_chain(d, id)]

\* Variant: the replaced swap chain is kept alive (leaked).
drop_swapchain_leaks(chains, old) == chains

\* The assignment `self.swapchain = ...` drops the value it replaces.
drop_swapchain(chains, old) == chains \ {old.id}

\* RenderState::recreate_swapchain: build, then assign (dropping the old).
recreate_swapchain(st, chains, size, id) ==
    LET made == create_swapchain(st.swapchain_descriptor, size, id)
    IN  [state |-> made,
         live  |-> drop_swapchain(chains, st.swapchain) \cup {made.swapchain.id}]

\* Variant: a rejected device request is not propagated.
RenderState_new_ignores_device(found, dev_ok, format, size, id) ==
    IF ~found THEN [ok |-> FALSE, err |-> "NoAdapter",
                    state |-> NoRenderState, live |-> {}]
    ELSE LET swapchain_descriptor ==
                 [usage |-> "RENDER_ATTACHMENT", format |-> format,
                  width |-> 0, height |-> 0, present_mode |-> "Fifo"]
             made == create_swapchain(swapchain_descriptor, size, id)
         IN  [ok |-> TRUE, err |-> "none", state |-> made,
              live |-> {made.swapchain.id}]

\* RenderState::new: adapter, device, descriptor, first swap chain.
RenderState_new(found, dev_ok, format, size, id) ==
    IF ~found THEN [ok |-> FALSE, err |-> "NoAdapter",
                    state |-> NoRenderState, live |-> {}]
    ELSE IF ~dev_ok THEN [ok |-> FALSE, err |-> "RequestDevice",
                          state |-> NoRenderState, live |-> {}]
    ELSE LET swapchain_descriptor ==
                 [usage |-> "RENDER_ATTACHMENT", format |-> format,
                  width |-> 0, height |-> 0, present_mode |-> "Fifo"]
             made == create_swapchain(swapchain_descriptor, size, id)
         IN  [ok |-> TRUE, err |-> "none", state |-> made,
              live |-> {made.swapchain.id}]

\* ----------------------------------------------------------------- render
\* Variant: the background is cleared in two passes.
render_colored_background_twice(log) ==
    log \o <<"begin_render_pass", "end_render_pass",
             "begin_render_pass", "end_render_pass">>

\* Variant: the render pass is begun and never ended.
render_colored_background_unended(log) ==
    log \o <<"begin_render_pass">>

\* render_colored_background: one render pass, ended when _render_pass is
\* dropped at the end of the function.
render_colored_background(log) ==
    log \o <<"begin_render_pass", "end_render_pass">>

render_contents(log) == render_colored_background(log)

\* Variant: a lost surface is reported as a timeout.
render_lost_is_timeout(r) ==
    IF r = "Ok"
    THEN [result |-> "Ok",
          log |-> render_contents(<<"get_current_frame",
                                    "create_command_encoder">>)
                  \o <<"finish", "submit">>]
    ELSE [result |-> CASE r \in {"Timeout", "Lost"} -> "TimedOut"
                       [] r = "Outdated" -> "RecreateSwapchain"
                       [] r = "OutOfMemory" -> "panic",
          log |-> <<"get_current_frame">>]

\* Variant: a timeout panics like an out-of-memory error.
render_timeout_panics(r) ==
    IF r = "Ok"
    THEN [result |-> "Ok",
          log |-> render_contents(<<"get_current_frame",
                                    "create_command_encoder">>)
                  \o <<"finish", "submit">>]
    ELSE [result |-> CASE r \in {"Outdated", "Lost"} -> "RecreateSwapchain"
                       [] r \in {"Timeout", "OutOfMemory"} -> "panic",
          log |-> <<"get_current_frame">>]

\* Variant: a timed-out acquisition is tried a second time at once.
render_retries_timeout(r) ==
    IF r = "Ok"
    THEN [result |-> "Ok",
          log |-> render_contents(<<"get_current_frame",
                                    "create_command_encoder">>)
                  \o <<"finish", "submit">>]
    ELSE [result |-> CASE r = "Timeout" -> "TimedOut"
                       [] r \in {"Outdated", "Lost"} -> "RecreateSwapchain"
                       [] r = "OutOfMemory" -> "panic",
          log |-> IF r = "Timeout"
                  THEN <<"get_current_frame", "get_current_frame">>
                  ELSE <<"get_current_frame">>]

\* Variant: the finished commands are never handed to the queue.
render_never_submits(r) ==
    IF r = "Ok"
    THEN [result |-> "Ok",
          log |-> render_contents(<<"get_current_frame",
                                    "create_command_encoder">>)
                  \o <<"finish">>]
    ELSE [result |-> CASE r = "Timeout" -> "TimedOut"
                       [] r \in {"Outdated", "Lost"} -> "RecreateSwapchain"
                       [] r = "OutOfMemory" -> "panic",
          log |-> <<"get_current_frame">>]

\* render(): acquire, then either record and submit or classify the error.
render(r) ==
    IF r = "Ok"
    THEN [result |-> "Ok",
          log |-> render_contents(<<"get_current_frame",
                                    "create_command_encoder">>)
                  \o <<"finish", "submit">>]
    ELSE [result |-> CASE r = "Timeout" -> "TimedOut"
                       [] r \in {"Outdated", "Lost"} -> "RecreateSwapchain"
                       [] r = "OutOfMemory" -> "panic",
          log |-> <<"get_current_frame">>]

RECURSIVE Count(_, _)
Count(x, s) ==
    IF s = <<>> THEN 0
    ELSE (IF Head(s) = x THEN 1 ELSE 0) + Count(x, Tail(s))

\* ------------------------------------------------------------------- Init
Init ==
    /\ pc = "start"
    /\ adapter_found \in BOOLEAN
    /\ device_ok \in BOOLEAN
    /\ preferred_format \in Formats
    /\ init_error = "none"
    /\ window_size \in Sizes
    /\ pending_resize = 0
    /\ state = NoRenderState
    /\ live = {}
    /\ control_flow = "Poll"
    /\ phase = "events"
    /\ redraw_requested = FALSE
    /\ last_event = "none"
    /\ last_result = "none"
    /\ last_outcome = "none"
    /\ frame_log = <<>>
    /\ last_build = [size |-> <<0, 0>>, descriptor |-> NoDescriptor,
                     unchanged |-> FALSE]
    /\ size_changed = FALSE
    /\ handled = 0
    /\ builds = 0
    /\ acquires = 0
    /\ readys = 0
    /\ passes = 0
    /\ submits = 0
    /\ redraw_calls = 0

loop_vars == <<control_flow, phase, redraw_requested, last_event>>
frame_vars == <<last_result, last_outcome, frame_log, acquires, readys,
                passes, submits>>
env_vars == <<adapter_found, device_ok, preferred_format>>
build_vars == <<state, live, last_build, size_changed, builds>>

\* main(): RenderState::new(window).expect(...), then run().
main ==
    /\ pc = "start"
    /\ LET res == RenderState_new(adapter_found, device_ok, preferred_format,
                                  window_size, builds + 1)
       IN  IF res.ok
           THEN /\ pc' = "running"
                /\ state' = res.state
                /\ live' = res.live
                /\ builds' = builds + 1
                /\ last_build' = [size |-> window_size,
                                  descriptor |-> res.state.swapchain_descriptor,
                                  unchanged |-> FALSE]
                /\ size_changed' = FALSE
                /\ UNCHANGED init_error
           ELSE /\ pc' = "init_failed"
                /\ init_error' = res.err
                /\ state' = res.state
                /\ live' = res.live
                /\ UNCHANGED <<builds, last_build, size_changed>>
    /\ UNCHANGED <<env_vars, window_size, pending_resize, loop_vars,
                   frame_vars, handled, redraw_calls>>

\* The window system changes the window's size and queues a Resized event.
WindowSizeChanges ==
    /\ pc = "running"
    /\ pending_resize < MaxPendingResize
    /\ \E s \in Sizes :
         /\ s # window_size
         /\ window_size' = s
    /\ pending_resize' = pending_resize + 1
    /\ size_changed' = TRUE
    /\ UNCHANGED <<pc, env_vars, init_error, state, live, loop_vars,
                   frame_vars, last_build, handled, builds, redraw_calls>>

\* The closure is called for an event of the iteration's first half.
CanHandle == pc = "running" /\ handled < MaxEvents

\* Effect of one recreate_swapchain call on the variables it touches.
Recreate ==
    LET res == recreate_swapchain(state, live, window_size, builds + 1)
    IN  /\ state' = res.state
        /\ live' = res.live
        /\ builds' = builds + 1
        /\ last_build' = [size |-> window_size,
                          descriptor |-> res.state.swapchain_descriptor,
                          unchanged |-> ~size_changed]
        /\ size_changed' = FALSE

\* Variant: a Resized event rebuilds only if the recorded size is stale.
Resized_if_changed ==
    /\ CanHandle
    /\ phase = "events"
    /\ pending_resize > 0
    /\ pending_resize' = pending_resize - 1
    /\ IF window_size # <<state.swapchain_descriptor.width,
                          state.swapchain_descriptor.height>>
       THEN Recreate
       ELSE UNCHANGED build_vars
    /\ last_event' = "Resized"
    /\ handled' = handled + 1
    /\ UNCHANGED <<pc, env_vars, init_error, window_size, control_flow, phase,
                   redraw_requested, frame_vars, redraw_calls>>

\* Event::WindowEvent { WindowEvent::Resized(_) }
Resized ==
    /\ CanHandle
    /\ phase = "events"
    /\ pending_resize > 0
    /\ pending_resize' = pending_resize - 1
    /\ Recreate
    /\ last_event' = "Resized"
    /\ handled' = handled + 1
    /\ UNCHANGED <<pc, env_vars, init_error, window_size, control_flow, phase,
                   redraw_requested, frame_vars, redraw_calls>>

\* Event::WindowEvent { WindowEvent::CloseRequested }
CloseRequested ==
    /\ CanHandle
    /\ phase = "events"
    /\ control_flow' = "Exit"
    /\ last_event' = "CloseRequested"
    /\ handled' = handled + 1
    /\ UNCHANGED <<pc, env_vars, init_error, window_size, pending_resize,
                   build_vars, phase, redraw_requested, frame_vars,
                   redraw_calls>>

\* Any other window event, and any other event (NewEvents, device events...)
OtherEvent ==
    /\ CanHandle
    /\ phase = "events"
    /\ last_event' = "Other"
    /\ handled' = handled + 1
    /\ UNCHANGED <<pc, env_vars, init_error, window_size, pending_resize,
                   build_vars, control_flow, phase, redraw_requested,
                   frame_vars, redraw_calls>>

\* Variant: the redraw is requested twice.
MainEventsCleared_twice ==
    /\ CanHandle
    /\ phase = "events"
    /\ redraw_requested' = TRUE
    /\ redraw_calls' = redraw_calls + 2
    /\ phase' = "redraw"
    /\ last_event' = "MainEventsCleared"
    /\ handled' = handled + 1
    /\ UNCHANGED <<pc, env_vars, init_error, window_size, pending_resize,
                   build_vars, control_flow, frame_vars>>

\* Variant: the handler also sets *control_flow = ControlFlow::Poll.
MainEventsCleared_sets_poll ==
    /\ CanHandle
    /\ phase = "events"
    /\ redraw_requested' = TRUE
    /\ redraw_calls' = redraw_calls + 1
    /\ phase' = "redraw"
    /\ control_flow' = "Poll"
    /\ last_event' = "MainEventsCleared"
    /\ handled' = handled + 1
    /\ UNCHANGED <<pc, env_vars, init_error, window_size, pending_resize,
                   build_vars, frame_vars>>

\* Event::MainEventsCleared: window.request_redraw().
MainEventsCleared ==
    /\ CanHandle
    /\ phase = "events"
    /\ redraw_requested' = TRUE
    /\ redraw_calls' = redraw_calls + 1
    /\ phase' = "redraw"
    /\ last_event' = "MainEventsCleared"
    /\ handled' = handled + 1
    /\ UNCHANGED <<pc, env_vars, init_error, window_size, pending_resize,
                   build_vars, control_flow, frame_vars>>

\* Variant: the RecreateSwapchain arm does nothing.
on_render_result_ignores_recreate(result) ==
    CASE result = "panic" ->
           /\ pc' = "panicked"
           /\ UNCHANGED build_vars
      [] OTHER ->
           /\ UNCHANGED <<pc, build_vars>>

\* Variant: the TimedOut arm rebuilds the swap chain too.
on_render_result_recreates_on_timeout(result) ==
    CASE result = "panic" ->
           /\ pc' = "panicked"
           /\ UNCHANGED build_vars
      [] result \in {"RecreateSwapchain", "TimedOut"} ->
           /\ Recreate
           /\ UNCHANGED pc
      [] OTHER ->
           /\ UNCHANGED <<pc, build_vars>>

\* Variant: the swap chain is rebuilt after every frame, rendered or not.
on_render_result_always_recreates(result) ==
    CASE result = "panic" ->
           /\ pc' = "panicked"
           /\ UNCHANGED build_vars
      [] result \in {"RecreateSwapchain", "Ok"} ->
           /\ Recreate
           /\ UNCHANGED pc
      [] OTHER ->
           /\ UNCHANGED <<pc, build_vars>>

\* The match on render()'s result in the RedrawRequested arm; the panic in
\* render() unwinds through it.
on_render_result(result) ==
    CASE result = "panic" ->
           /\ pc' = "panicked"
           /\ UNCHANGED build_vars
      [] result = "RecreateSwapchain" ->
           /\ Recreate
           /\ UNCHANGED pc
      [] OTHER ->
           /\ UNCHANGED <<pc, build_vars>>

\* Event::RedrawRequested(_): render() and the match on its result.
RedrawRequested ==
    /\ CanHandle
    /\ phase = "redraw"
    /\ redraw_requested
    /\ \E r \in FrameResults :
         LET rr == render(r)
         IN  /\ last_result' = r
             /\ last_outcome' = rr.result
             /\ frame_log' = rr.log
             /\ acquires' = acquires + Count("get_current_frame", rr.log)
             /\ readys' = readys + (IF r = "Ok" THEN 1 ELSE 0)
             /\ passes' = passes + Count("begin_render_pass", rr.log)
             /\ submits' = submits + Count("submit", rr.log)
             /\ on_render_result(rr.result)
    /\ redraw_requested' = FALSE
    /\ last_event' = "RedrawRequested"
    /\ handled' = handled + 1
    /\ UNCHANGED <<env_vars, init_error, window_size, pending_resize,
                   control_flow, phase, redraw_calls>>

\* Event::RedrawEventsCleared ends the iteration; the loop then looks at
\* *control_flow and either starts the next iteration or stops.
RedrawEventsCleared ==
    /\ CanHandle
    /\ phase = "redraw"
    /\ ~redraw_requested
    /\ pc' = IF control_flow = "Exit" THEN "exited" ELSE "running"
    /\ phase' = "events"
    /\ last_event' = "RedrawEventsCleared"
    /\ handled' = handled + 1
    /\ UNCHANGED <<env_vars, init_error, window_size, pending_resize,
                   build_vars, control_flow, redraw_requested, frame_vars,
                   redraw_calls>>

\* run(): the closure, once per event.
run ==
    \/ Resized
    \/ CloseRequested
    \/ OtherEvent
    \/ MainEventsCleared
    \/ RedrawRequested
    \/ RedrawEventsCleared

Next ==
    \/ main
    \/ WindowSizeChanges
    \/ run

Spec == Init /\ [][Next]_vars

\* ------------------------------------------------- the loop without bound
\* The same closure, followed for as long as the loop runs: the counters
\* of calls stand still (they only record history), so the states are
\* finitely many.  The platform here never closes the window, never runs
\* out of memory, and reports a swap chain as outdated or lost only when
\* its size is not the window's or it has zero area.
counters == <<handled, builds, acquires, readys, passes, submits,
              redraw_calls>>

ZeroArea(size) == size[1] = 0 \/ size[2] = 0

TargetSize == <<state.swapchain.width, state.swapchain.height>>

\* What get_current_frame may return in the state at hand.
LiveFrameResults ==
    {"Ok", "Timeout"} \cup
    (IF TargetSize # window_size \/ ZeroArea(TargetSize)
     THEN {"Outdated", "Lost"} ELSE {})

LiveInit == Init /\ adapter_found /\ device_ok

\* recreate_swapchain, the new swap chain taking an id that is free.
LiveRecreate ==
    LET id  == CHOOSE i \in 1..2 : i \notin live
        res == recreate_swapchain(state, live, window_size, id)
    IN  /\ state' = res.state
        /\ live' = res.live
        /\ last_build' = [size |-> window_size,
                          descriptor |-> res.state.swapchain_descriptor,
                          unchanged |-> ~size_changed]
        /\ size_changed' = FALSE

LiveResized ==
    /\ pc = "running"
    /\ phase = "events"
    /\ pending_resize > 0
    /\ pending_resize' = pending_resize - 1
    /\ LiveRecreate
    /\ last_event' = "Resized"
    /\ UNCHANGED <<pc, env_vars, init_error, window_size, control_flow, phase,
                   redraw_requested, last_result, last_outcome, frame_log,
                   counters>>

LiveOtherEvent ==
    /\ pc = "running"
    /\ phase = "events"
    /\ last_event' = "Other"
    /\ UNCHANGED <<pc, env_vars, init_error, window_size, pending_resize,
                   state, live, last_build, size_changed, control_flow, phase,
                   redraw_requested, last_result, last_outcome, frame_log,
                   counters>>

LiveMainEventsCleared ==
    /\ pc = "running"
    /\ phase = "events"
    /\ redraw_requested' = TRUE
    /\ phase' = "redraw"
    /\ last_event' = "MainEventsCleared"
    /\ UNCHANGED <<pc, env_vars, init_error, window_size, pending_resize,
                   state, live, last_build, size_changed, control_flow,
                   last_result, last_outcome, frame_log, counters>>

LiveRedraw(r) ==
    /\ pc = "running"
    /\ phase = "redraw"
    /\ redraw_requested
    /\ r \in LiveFrameResults
    /\ LET rr == render(r)
       IN  /\ last_result' = r
           /\ last_outcome' = rr.result
           /\ frame_log' = rr.log
           /\ IF rr.result = "RecreateSwapchain"
              THEN LiveRecreate
              ELSE UNCHANGED <<state, live, last_build, size_changed>>
    /\ redraw_requested' = FALSE
    /\ last_event' = "RedrawRequested"
    /\ UNCHANGED <<pc, env_vars, init_error, window_size, pending_resize,
                   control_flow, phase, counters>>

LiveRedrawRequested == \E r \in FrameResults : LiveRedraw(r)

\* A redraw whose acquisition does not time out.
LiveRedrawAnswered == \E r \in FrameResults \ {"Timeout"} : LiveRedraw(r)

LiveRedrawEventsCleared ==
    /\ pc = "running"
    /\ phase = "redraw"
    /\ ~redraw_requested
    /\ phase' = "events"
    /\ last_event' = "RedrawEventsCleared"
    /\ UNCHANGED <<pc, env_vars, init_error, window_size, pending_resize,
                   state, live, last_build, size_changed, control_flow,
                   redraw_requested, last_result, last_outcome, frame_log,
                   counters>>

LiveNext ==
    \/ main
    \/ WindowSizeChanges
    \/ LiveResized
    \/ LiveOtherEvent
    \/ LiveMainEventsCleared
    \/ LiveRedrawRequested
    \/ LiveRedrawEventsCleared

\* The loop polls: every iteration reaches MainEventsCleared, the pending
\* redraw and RedrawEventsCleared; a queued Resized event is delivered in
\* some iteration; acquisitions do not time out for ever.
LiveSpec ==
    /\ LiveInit
    /\ [][LiveNext]_vars
    /\ WF_vars(main)
    /\ WF_vars(LiveMainEventsCleared)
    /\ WF_vars(LiveRedrawRequested)
    /\ WF_vars(LiveRedrawEventsCleared)
    /\ SF_vars(LiveResized)
    /\ SF_vars(LiveRedrawAnswered)

\* ------------------------------------------------------------ properties
Started == pc \in {"running", "exited", "panicked"}

descriptor == state.swapchain_descriptor

\* C1: once a close request has been handled (control flow is Exit), no
\* later event leads to another get_current_frame call.
C1_NoAcquireAfterClose ==
    [][control_flow = "Exit" => acquires' = acquires]_vars

\* C2: one render pass per acquisition that is Ready, none for one that
\* needs recreation or timed out; passes begun equal Ready outcomes.
C2_OnePassPerReady ==
    /\ passes = readys
    /\ last_outcome = "Ok" => Count("begin_render_pass", frame_log) = 1
    /\ last_outcome \in {"RecreateSwapchain", "TimedOut"}
           => Count("begin_render_pass", frame_log) = 0

C2_Witness ==
    /\ readys >= 1
    /\ passes >= 1
    /\ acquires >= 2
    /\ last_outcome = "TimedOut"

\* C3: every (re)build records the window size read at that call, in the
\* descriptor and in the target; between builds the recorded size keeps
\* that value whatever the window does.
C3_SizeReadAtBuild ==
    [][IF builds' # builds
       THEN /\ descriptor'.width = window_size[1]
            /\ descriptor'.height = window_size[2]
            /\ state'.swapchain.width = window_size[1]
            /\ state'.swapchain.height = window_size[2]
       ELSE /\ descriptor'.width = descriptor.width
            /\ descriptor'.height = descriptor.height]_vars

C3_Witness ==
    /\ pc = "running"
    /\ builds >= 2
    /\ size_changed
    /\ <<descriptor.width, descriptor.height>> = last_build.size
    /\ <<descriptor.width, descriptor.height>> # window_size

\* C4: a RecreateTarget that follows another RecreateTarget with no window
\* size change in between leaves the descriptor as the first one left it.
C4_RecreateIdempotent ==
    [][(builds' # builds /\ builds >= 2 /\ ~size_changed)
           => descriptor' = last_build.descriptor]_vars

C4_Witness ==
    /\ builds >= 3
    /\ last_build.unchanged
    /\ descriptor = last_build.descriptor

\* C5: no acquisition is Ready while the descriptor's width or height is 0.
C5_NoReadyOnZeroArea ==
    (last_event = "RedrawRequested" /\ last_outcome = "Ok")
        => (descriptor.width # 0 /\ descriptor.height # 0)

\* C6: the classification of a platform result: success is Ready, Timeout
\* is TimedOut, Outdated and Lost are NeedsRecreation, OutOfMemory is Fatal.
C6_Classification ==
    acquires > 0 =>
        \/ last_result = "Ok" /\ last_outcome = "Ok"
        \/ last_result = "Timeout" /\ last_outcome = "TimedOut"
        \/ last_result \in {"Outdated", "Lost"}
               /\ last_outcome = "RecreateSwapchain"
        \/ last_result = "OutOfMemory" /\ last_outcome = "panic"

C6_Witness ==
    /\ last_result = "Lost"
    /\ last_outcome = "RecreateSwapchain"

\* C7: the loop is stopped abnormally exactly when an acquisition reported
\* OutOfMemory; any other frame outcome leaves the loop running, with the
\* control flow as it was.
C7_OnlyFatalStops ==
    /\ [](pc = "panicked" <=> last_result = "OutOfMemory")
    /\ [][(acquires' # acquires /\ last_result' # "OutOfMemory")
              => (pc' = "running" /\ control_flow' = control_flow)]_vars

C7_Witness ==
    /\ pc = "panicked"
    /\ last_result = "OutOfMemory"
    /\ readys >= 1

\* C8: without an adapter main stops on NoAdapter, with a rejected device
\* request on RequestDevice; then no target was built, no event handled and
\* no frame acquired.
C8_InitFailure ==
    /\ pc # "start" => (pc = "init_failed" <=> (~adapter_found \/ ~device_ok))
    /\ pc = "init_failed" =>
           /\ init_error = IF ~adapter_found THEN "NoAdapter"
                           ELSE "RequestDevice"
           /\ state = NoRenderState
           /\ live = {}
           /\ builds = 0
           /\ handled = 0
           /\ acquires = 0

C8_Witness ==
    /\ pc = "init_failed"
    /\ init_error = "RequestDevice"

\* C9: format, usage and present mode of the descriptor are those chosen
\* when the context was created, in every state after it.
C9_FormatModeFixed ==
    Started =>
        /\ descriptor.format = preferred_format
        /\ descriptor.usage = "RENDER_ATTACHMENT"
        /\ descriptor.present_mode = "Fifo"

C9_Witness ==
    /\ Started
    /\ builds >= 3
    /\ descriptor.width = 0
    /\ descriptor.format = "Rgba8UnormSrgb"

Handles(e) == handled' = handled + 1 /\ last_event' = e

\* C11: a Resized event handled while the loop is not exiting calls
\* recreate_swapchain exactly once within that call of the closure,
\* whatever the last acquisition's outcome was.
C11_ResizeRecreates ==
    [][(Handles("Resized") /\ control_flow # "Exit")
           => /\ builds' = builds + 1
              /\ state'.swapchain.id # state.swapchain.id
              /\ live' = {state'.swapchain.id}
              /\ acquires' = acquires]_vars

C11_Witness ==
    /\ last_event = "Resized"
    /\ control_flow = "Poll"
    /\ last_build.unchanged
    /\ last_outcome = "Ok"
    /\ builds >= 3

\* C12: a redraw whose acquisition needs recreation calls
\* recreate_swapchain exactly once, records and submits nothing and leaves
\* the loop running.
C12_NeedsRecreationRecreates ==
    [][(Handles("RedrawRequested") /\ last_outcome' = "RecreateSwapchain")
           => /\ builds' = builds + 1
              /\ state'.swapchain.id # state.swapchain.id
              /\ frame_log' = <<"get_current_frame">>
              /\ passes' = passes
              /\ submits' = submits
              /\ pc' = "running"
              /\ control_flow' = control_flow]_vars

C12_Witness ==
    /\ last_event = "RedrawRequested"
    /\ last_outcome = "RecreateSwapchain"
    /\ last_result = "Outdated"
    /\ builds = 2
    /\ pc = "running"

\* C13: a redraw whose acquisition timed out rebuilds nothing and renders
\* nothing: target and descriptor are as before and the loop runs on.
C13_TimedOutChangesNothing ==
    [][(Handles("RedrawRequested") /\ last_outcome' = "TimedOut")
           => /\ state' = state
              /\ live' = live
              /\ builds' = builds
              /\ frame_log' = <<"get_current_frame">>
              /\ passes' = passes
              /\ submits' = submits
              /\ pc' = "running"
              /\ control_flow' = control_flow]_vars

C13_Witness ==
    /\ last_event = "RedrawRequested"
    /\ last_outcome = "TimedOut"
    /\ size_changed
    /\ pc = "running"

\* C14: on a Ready outcome the GPU calls are, in this order: open the
\* command encoder, begin the render pass, end it, finish the encoder,
\* submit.
C14_ReadyOrder ==
    last_outcome = "Ok" =>
        frame_log = <<"get_current_frame", "create_command_encoder",
                      "begin_render_pass", "end_render_pass",
                      "finish", "submit">>

C14_Witness ==
    /\ last_outcome = "Ok"
    /\ Len(frame_log) = 6
    /\ frame_log[4] = "end_render_pass"
    /\ frame_log[5] = "finish"

\* C15: a MainEventsCleared event requests one redraw and does nothing
\* else: no acquisition, no rebuild.
C15_IdleRequestsOneRedraw ==
    [][Handles("MainEventsCleared")
           => /\ redraw_calls' = redraw_calls + 1
              /\ redraw_requested'
              /\ acquires' = acquires
              /\ builds' = builds
              /\ state' = state
              /\ live' = live]_vars

C15_Witness ==
    /\ last_event = "MainEventsCleared"
    /\ redraw_calls >= 2
    /\ redraw_requested

\* C16: one RedrawRequested event makes one get_current_frame call, also
\* when it times out or needs recreation, and no other event makes any.
C16_OneAcquirePerRedraw ==
    [][/\ Handles("RedrawRequested")
          => (acquires' = acquires + 1
              /\ Count("get_current_frame", frame_log') = 1)
       /\ acquires' # acquires => Handles("RedrawRequested")]_vars

C16_Witness ==
    /\ last_result = "Timeout"
    /\ acquires >= 2
    /\ acquires = redraw_calls
    /\ Count("get_current_frame", frame_log) = 1

\* C17: only recreate_swapchain changes the target and the descriptor: a
\* close request, a MainEventsCleared, an unhandled event and a redraw that
\* is Ready leave both as they were.
C17_OnlyRecreateMutates ==
    [][/\ (\/ Handles("CloseRequested")
           \/ Handles("MainEventsCleared")
           \/ Handles("Other")
           \/ Handles("RedrawEventsCleared")
           \/ (Handles("RedrawRequested") /\ last_outcome' = "Ok"))
          => (state' = state /\ live' = live /\ builds' = builds)
       /\ (state' # state /\ pc # "start") => builds' = builds + 1]_vars

C17_Witness ==
    /\ last_event = "RedrawRequested"
    /\ last_outcome = "Ok"
    /\ builds >= 2
    /\ size_changed

\* C18: the queue gets one submission per Ready outcome and none for any
\* other outcome; submissions equal Ready outcomes.
C18_OneSubmitPerReady ==
    /\ submits = readys
    /\ last_outcome = "Ok" => Count("submit", frame_log) = 1
    /\ last_outcome \in {"RecreateSwapchain", "TimedOut", "panic"}
           => Count("submit", frame_log) = 0

C18_Witness ==
    /\ submits >= 1
    /\ acquires >= 2
    /\ last_outcome = "RecreateSwapchain"

\* C19: once the control flow is Exit, no event handled later makes it
\* anything else.
C19_ExitAbsorbing ==
    [][control_flow = "Exit" => control_flow' = "Exit"]_vars

C19_Witness ==
    /\ control_flow = "Exit"
    /\ last_event = "RedrawRequested"
    /\ handled >= 3

\* A frame has just been rendered and submitted.
Rendered == last_event = "RedrawRequested" /\ last_outcome = "Ok"

\* A frame has just been rendered against a target of the window's size s.
GoodFrame(s) ==
    /\ Rendered
    /\ window_size = s
    /\ TargetSize = s
    /\ <<descriptor.width, descriptor.height>> = s

\* C20 (recovery): if the window size settles on a size of non-zero area,
\* frames are rendered again and again against a target of that size.
C20_Recovery ==
    \A s \in {t \in Sizes : ~ZeroArea(t)} :
        <>[](window_size = s) => []<>GoodFrame(s)

\* C20 (zero area): no frame is rendered while window and target have zero
\* area, and if the window stays so the loop keeps recreating the target.
C20_ZeroAreaNeverRenders ==
    [](Rendered => ~(ZeroArea(window_size) /\ ZeroArea(TargetSize)))

C20_ZeroAreaKeepsRecreating ==
    <>[]ZeroArea(window_size)
        => []<>(last_event = "RedrawRequested"
                /\ last_outcome = "RecreateSwapchain")

\* C20: recovery is eventual for a window that settles on a non-zero size,
\* and a window of zero area is recreated for and never rendered to.
C20_EventualRecovery ==
    /\ C20_Recovery
    /\ C20_ZeroAreaNeverRenders
    /\ C20_ZeroAreaKeepsRecreating

====
